---- MODULE Spec2Model ----
(***************************************************************************)
(* The session / connection broker of src/server.js (ClaudeCodeWebServer): *)
(* the session registry (claudeSessions), the WebSocket connections        *)
(* (webSocketConnections), the three process bridges and the handlers that *)
(* tie them together.  One action per handler or callback.                 *)
(*                                                                         *)
(* The event loop runs one handler at a time.  An await of one of the       *)
(* server's own async methods that awaits nothing itself                   *)
(* (leaveClaudeSession inside joinClaudeSession) resumes before any other  *)
(* event is handled, so the handler stays one action.  The await of a      *)
(* bridge's startSession suspends the handler while the process is         *)
(* spawned: startClaude / startCodex / startAgent are split there into     *)
(* StartRequest and StartReturn, and any other event may come between.     *)
(* stopClaude / stopCodex / stopAgent await the bridge's stopSession before *)
(* they touch the session: they are split the same way into StopRequest    *)
(* and StopReturn.  Nothing follows the await of sendInput / resize but the *)
(* catch block, so the 'input' and 'resize' cases stay one action.         *)
(*                                                                         *)
(* The three bridge modules are not part of the sources at hand; their     *)
(* behaviour (Bridge... below) follows the specification's section 4.3.    *)
(*                                                                         *)
(* The session store (utils/session-store) is not part of the sources      *)
(* either; it follows the specification's sections 4.4 and 6: save(map)    *)
(* answers ack or failure, an acknowledged save replaces the snapshot, at  *)
(* the time of the call, by the durable fields of every session, and       *)
(* load() answers the snapshot with every session idle.  The constructor   *)
(* starts loadPersistedSessions without awaiting it and handleShutdown     *)
(* awaits a save before it closes: both are suspension points              *)
(* (LoadPersistedSessions, ShutdownRequest / ShutdownReturn).  A shutdown  *)
(* signal is taken to arrive after the load has completed.  process.exit   *)
(* ends the processes the bridges spawned; a later run of the server       *)
(* starts from the snapshot alone.                                         *)
(* Chunks are numbered per session in the order onOutput receives them.    *)
(***************************************************************************)
EXTENDS Integers, Sequences, FiniteSets, TLC

\* ------------------------------------------------------------------ bounds
\* Each specification runs the same handlers under its own bounds (limits):
\* sessions ever created (uuidv4 ids are fresh, so ids are never reused),
\* WebSocket connections ever opened, start_* requests that reach a bridge and
\* output chunks the processes emit (the last two over all sessions together).
\* Spec: two sessions and two connections, one start of two of the three
\* kinds, one chunk.
MaxSessions == 2
MaxConns == 2
MaxStarts == 1
MaxEmit == 1
\* SpecStart: one session and two connections, overlapping and repeated starts
\* of two of the three kinds (startCodex and startAgent differ in names only).
RaceSessions == 1
RaceConns == 2
RaceStarts == 2
RaceEmit == 1
\* SpecOutput: one session and two connections, a stream longer than the buffer.
StreamSessions == 1
StreamConns == 2
StreamStarts == 1
StreamEmit == 5
\* SpecRebind: three sessions and one connection that moves between them.
RebindSessions == 3
RebindConns == 1
RebindStarts == 1
RebindEmit == 1
\* SpecPersist: two sessions and one connection with a store that may
\* acknowledge or fail, and with events handled while the startup load is
\* pending.
PersistSessions == 2
PersistConns == 1
PersistStarts == 1
PersistEmit == 1
\* SpecShutdown: two sessions and one connection with a store that may
\* acknowledge or fail, and with events handled while the save handleShutdown
\* awaits is pending.
ShutdownSessions == 2
ShutdownConns == 1
ShutdownStarts == 1
ShutdownEmit == 1
\* Scaled-down capacity of a session's outputBuffer (1000 in server.js:1510).
MaxBufferSize == 4
\* Scaled-down length of the join replay (200 in server.js:1558).
ReplayLimit == 2

\* ------------------------------------------------------------------ values
NoSession == 0
ConnIds == 1..MaxConns
Kinds == {"claude", "codex", "agent"}
\* The create requests a run draws from: name and workingDir as the client sent
\* them, "" for a field left out, "inside" / "outside" for a directory inside /
\* outside the base folder.
PlainRequests ==
  {[name |-> "", workingDir |-> "inside"], [name |-> "", workingDir |-> "outside"]}
NamedRequests ==
  {[name |-> "", workingDir |-> ""], [name |-> "work", workingDir |-> "inside"],
   [name |-> "", workingDir |-> "outside"]}
\* `Session ${new Date().toLocaleString()}` and this.baseFolder.
DefaultName == "Session"
BaseFolder == "base"
\* What the store answers to a save.
SaveOutcomes == {"ack", "failure"}
PersistKinds == {"claude"}
\* The kinds Spec, SpecStart and SpecOutput start.
RaceKinds == {"claude", "codex"}

AlreadyRunningMsg == "An agent is already running in this session"
NotFoundMsg == "Session not found"
NoSessionJoinedMsg == "No session joined"
BadWorkingDirMsg == "Cannot create session with working directory outside the allowed area"
FailedToStartMsg == "Failed to start"
ProcessErrorMsg == "process error"
NoAgentMsg == "No agent is running. Choose an option to start."
AgentNotRunningMsg == "Agent is not running in this session. Please start an agent first."
FailedToProcessMsg == "Failed to process message"
InputOps == {"input", "resize"}

VARIABLES
  claudeSessions,        \* registry: session id -> session object
  webSocketConnections,  \* connection id -> [claudeSessionId, readyState]
  nextSessionId,         \* session ids handed out so far
  nextWsId,              \* connection ids handed out so far
  bridge,                \* per bridge variant, per session id: the process
  pendingStarts,         \* startClaude/startCodex/startAgent suspended at the await
  starts,                \* start requests that reached a bridge so far (the clock)
  limits,                \* the bounds of this run: [sessions, conns, starts, emits, kinds,
                         \*   requests, saves, overlap]
  emitted,               \* per session id: chunks appended by onOutput so far
  inbox,                 \* per connection: what it was sent since it was bound
  sent,                  \* the messages the last handler sent
  pendingStops,          \* stopClaude/stopCodex/stopAgent suspended at the await
  idleByStop,            \* sessions a stop marked idle, no start succeeded since
  forwarded,             \* the sendInput / resize calls the last handler made
  phase,                 \* "loading" (load pending), "up", "stopping" (handleShutdown
                         \*   at its await), "down" (process exited)
  sessionStore,          \* the snapshot on disk: session id -> [name, workingDir]
  restored,              \* the session ids the last load put in the registry
  atShutdown             \* the session ids registered when handleShutdown began,
                         \*   and whether the save it awaits was acknowledged

\* The session ids this run can hand out.
SessionIds == 1..limits.sessions

vars == <<claudeSessions, webSocketConnections, nextSessionId, nextWsId, bridge,
          pendingStarts, starts, limits, emitted, inbox, sent, pendingStops,
          idleByStop, forwarded, phase, sessionStore, restored, atShutdown>>

\* Handlers run once the startup load has completed and until the process
\* exits; in a run with limits.overlap they also run while the load or the save
\* of handleShutdown is pending.
Serving ==
  \/ phase = "up"
  \/ phase \in limits.overlap

\* ---------------------------------------------------------------- messages
Msg(to, type) ==
  [to |-> to, type |-> type, message |-> "", sessionId |-> NoSession,
   active |-> FALSE, outputBuffer |-> <<>>, data |-> 0]

\* A connection's log: the chunks the session had emitted when it was bound (at),
\* the replay of session_joined, and the output messages received since.
EmptyInbox == [at |-> 0, replay |-> <<>>, live |-> <<>>]

\* sendToWebSocket: a message reaches only a transport that is OPEN.
IsOpen(conns, w) == w \in DOMAIN conns /\ conns[w].readyState = "OPEN"

SendToWebSocket(conns, m) == IF IsOpen(conns, m.to) THEN {m} ELSE {}

\* Mutant of BroadcastTargets: a member whose transport is not open aborts the
\* whole broadcast.
BroadcastTargetsAbort(sessions, conns, sid) ==
  IF sid \notin DOMAIN sessions THEN {}
  ELSE IF \E w \in sessions[sid].connections : ~IsOpen(conns, w) THEN {}
  ELSE {w \in sessions[sid].connections : conns[w].claudeSessionId = sid}

\* Mutant of BroadcastTargets: the transport's readyState is not looked at.
BroadcastTargetsAnyState(sessions, conns, sid) ==
  IF sid \notin DOMAIN sessions THEN {}
  ELSE {w \in sessions[sid].connections :
          w \in DOMAIN conns /\ conns[w].claudeSessionId = sid}

\* Mutant of BroadcastTargets: the check of the connection's own binding is
\* missing.
BroadcastTargetsAnyBinding(sessions, conns, sid) ==
  IF sid \notin DOMAIN sessions THEN {}
  ELSE {w \in sessions[sid].connections :
          /\ w \in DOMAIN conns
          /\ conns[w].readyState = "OPEN"}

\* broadcastToSession: every connection in the session's set that is registered,
\* still bound to this session and OPEN.
BroadcastTargets(sessions, conns, sid) ==
  IF sid \notin DOMAIN sessions THEN {}
  ELSE {w \in sessions[sid].connections :
          /\ w \in DOMAIN conns
          /\ conns[w].claudeSessionId = sid
          /\ conns[w].readyState = "OPEN"}

BroadcastToSession(sessions, conns, sid, type) ==
  {[Msg(w, type) EXCEPT !.sessionId = sid] : w \in BroadcastTargets(sessions, conns, sid)}

\* ------------------------------------------------------------ pure helpers
\* Mutant of SliceLast: slice(0, n), the oldest chunks instead of the newest.
SliceFirst(buf, n) ==
  IF Len(buf) <= n THEN buf ELSE SubSeq(buf, 1, n)

\* Mutant of SliceLast: slice(-(n - 1)), one chunk short.
SliceLastOneShort(buf, n) ==
  IF Len(buf) <= n - 1 THEN buf ELSE SubSeq(buf, Len(buf) - n + 2, Len(buf))

\* Array.prototype.slice(-n)
SliceLast(buf, n) ==
  IF Len(buf) <= n THEN buf ELSE SubSeq(buf, Len(buf) - n + 1, Len(buf))

\* Mutant of PushOutput: the shift is missing.
PushOutputNoShift(buf, data, cap) == Append(buf, data)

\* Mutant of PushOutput: the shift happens at capacity (>= for >).
PushOutputEarlyShift(buf, data, cap) ==
  LET pushed == Append(buf, data)
  IN IF Len(pushed) >= cap THEN Tail(pushed) ELSE pushed

\* onOutput's buffer update: push, then shift once when over capacity.
PushOutput(buf, data, cap) ==
  LET pushed == Append(buf, data)
  IN IF Len(pushed) > cap THEN Tail(pushed) ELSE pushed

\* validatePath / isPathWithinBase, on the abstract working directories.
\* Mutant of ValidatePath: every directory is accepted.
ValidatePathAcceptsAll(workingDir) == TRUE

ValidatePath(workingDir) == workingDir = "inside"

\* Mutant of AlreadyActive: the guard is missing.
AlreadyActiveIgnored(session) == FALSE

\* The guard of startClaude / startCodex / startAgent.
AlreadyActive(session) == session.active

\* new Date(): the clock advances when a start request reaches a bridge.
Now == starts

NewSession(connections, name, workingDir) ==
  [active |-> FALSE, agent |-> "null",
   name |-> IF name = "" THEN DefaultName ELSE name,
   workingDir |-> IF workingDir = "" THEN BaseFolder ELSE workingDir,
   connections |-> connections, outputBuffer |-> <<>>, lastActivity |-> Now,
   sessionStartTime |-> 0, maxBufferSize |-> MaxBufferSize]

\* What a connection has been sent since it was bound, updated from the messages
\* of one handler.
Receive(ib, msgs, em) ==
  [w \in ConnIds |->
     LET mine == {m \in msgs : m.to = w}
         joined == {m \in mine : m.type = "session_joined"}
         created == {m \in mine : m.type = "session_created"}
         left == {m \in mine : m.type = "session_left"}
         output == {m \in mine : m.type = "output"}
     IN IF joined # {}
        THEN LET m == CHOOSE m \in joined : TRUE
             IN [at |-> em[m.sessionId], replay |-> m.outputBuffer, live |-> <<>>]
        ELSE IF created # {} \/ left # {} THEN EmptyInbox
        ELSE IF output # {}
        THEN [ib[w] EXCEPT !.live = Append(@, (CHOOSE m \in output : TRUE).data)]
        ELSE ib[w]]

\* ------------------------------------------------------------ persistence
\* The durable subset of every session, as the store serializes it.
Durable(sessions) ==
  [sid \in DOMAIN sessions |->
     [name |-> sessions[sid].name, workingDir |-> sessions[sid].workingDir]]

\* The map loadSessions answers: the snapshot's sessions, every one idle, with
\* no connections, no buffer and no process.
Restore(snapshot) ==
  [sid \in DOMAIN snapshot |->
     [active |-> FALSE, agent |-> "null",
      name |-> snapshot[sid].name, workingDir |-> snapshot[sid].workingDir,
      connections |-> {}, outputBuffer |-> <<>>, lastActivity |-> 0,
      sessionStartTime |-> 0, maxBufferSize |-> MaxBufferSize]]

\* The store's saveSessions: an acknowledged save replaces the snapshot by the
\* durable fields of the sessions handed over, a failed one leaves it.
StoreSave(sessions, store, outcome) ==
  IF outcome = "ack" THEN Durable(sessions) ELSE store

\* saveSessionsToDisk: the store is called only for a registry that is not
\* empty.
SaveSessionsToDisk(sessions, store, outcome) ==
  IF DOMAIN sessions # {} THEN StoreSave(sessions, store, outcome) ELSE store

\* The snapshots a call of saveSessionsToDisk can leave.
SaveResults(sessions, store) ==
  {SaveSessionsToDisk(sessions, store, o) : o \in limits.saves}

\* The largest id the snapshot holds: ids handed out later are fresh.
MaxId(snapshot) ==
  IF DOMAIN snapshot = {} THEN 0
  ELSE CHOOSE sid \in DOMAIN snapshot : \A other \in DOMAIN snapshot : other <= sid

\* ------------------------------------------------------------------- Init
\* No shutdown is under way.
NoShutdown == [sessions |-> {}, saved |-> FALSE]

InitWith(lim) ==
  /\ limits = lim
  /\ phase = "loading"
  /\ sessionStore = <<>>
  /\ restored = {}
  /\ atShutdown = NoShutdown
  /\ claudeSessions = <<>>
  /\ webSocketConnections = <<>>
  /\ nextSessionId = 0
  /\ nextWsId = 0
  /\ bridge = [k \in Kinds |-> [s \in SessionIds |-> "none"]]
  /\ pendingStarts = {}
  /\ starts = 0
  /\ emitted = [s \in SessionIds |-> 0]
  /\ inbox = [w \in ConnIds |-> EmptyInbox]
  /\ sent = {}
  /\ pendingStops = {}
  /\ idleByStop = {}
  /\ forwarded = {}

Init ==
  InitWith([sessions |-> MaxSessions, conns |-> MaxConns,
            starts |-> MaxStarts, emits |-> MaxEmit, kinds |-> RaceKinds,
            requests |-> PlainRequests, saves |-> {"failure"}, overlap |-> {}])

InitStart ==
  InitWith([sessions |-> RaceSessions, conns |-> RaceConns,
            starts |-> RaceStarts, emits |-> RaceEmit, kinds |-> RaceKinds,
            requests |-> PlainRequests, saves |-> {"failure"}, overlap |-> {}])

InitOutput ==
  InitWith([sessions |-> StreamSessions, conns |-> StreamConns,
            starts |-> StreamStarts, emits |-> StreamEmit, kinds |-> RaceKinds,
            requests |-> PlainRequests, saves |-> {"failure"}, overlap |-> {}])

InitRebind ==
  InitWith([sessions |-> RebindSessions, conns |-> RebindConns,
            starts |-> RebindStarts, emits |-> RebindEmit, kinds |-> Kinds,
            requests |-> PlainRequests, saves |-> {"failure"}, overlap |-> {}])

InitPersist ==
  InitWith([sessions |-> PersistSessions, conns |-> PersistConns,
            starts |-> PersistStarts, emits |-> PersistEmit, kinds |-> PersistKinds,
            requests |-> NamedRequests, saves |-> SaveOutcomes, overlap |-> {"loading"}])

InitShutdown ==
  InitWith([sessions |-> ShutdownSessions, conns |-> ShutdownConns,
            starts |-> ShutdownStarts, emits |-> ShutdownEmit, kinds |-> PersistKinds,
            requests |-> PlainRequests, saves |-> SaveOutcomes, overlap |-> {"stopping"}])

\* ------------------------------------------------- connections and sessions
\* Mutant of LeaveSessions: the session is marked idle when its last connection
\* goes.
LeaveSessionsIdleWhenEmpty(sessions, conns, w) ==
  LET cur == conns[w].claudeSessionId
  IN IF cur # NoSession /\ cur \in DOMAIN sessions
     THEN [sessions EXCEPT ![cur].connections = @ \ {w}, ![cur].lastActivity = Now,
                           ![cur].active = IF sessions[cur].connections \ {w} = {}
                                           THEN FALSE ELSE @]
     ELSE sessions

\* leaveClaudeSession, on the registry and the connection table.
LeaveSessions(sessions, conns, w) ==
  LET cur == conns[w].claudeSessionId
  IN IF cur # NoSession /\ cur \in DOMAIN sessions
     THEN [sessions EXCEPT ![cur].connections = @ \ {w}, ![cur].lastActivity = Now]
     ELSE sessions

LeaveMsgs(conns, w) ==
  IF conns[w].claudeSessionId # NoSession
  THEN SendToWebSocket(conns, Msg(w, "session_left"))
  ELSE {}

\* Mutant of JoinResult: the connection leaves its session before the lookup of
\* the session to join.
JoinResultLeaveFirst(sessions, conns, w, sid) ==
  LET s1 == LeaveSessions(sessions, conns, w)
      c1 == [conns EXCEPT ![w].claudeSessionId = NoSession]
  IN IF sid \notin DOMAIN sessions
     THEN [sessions |-> s1, conns |-> c1,
           msgs |-> LeaveMsgs(conns, w) \cup
                    SendToWebSocket(conns, [Msg(w, "error") EXCEPT !.message = NotFoundMsg])]
     ELSE LET s2 == [s1 EXCEPT ![sid].connections = @ \cup {w}, ![sid].lastActivity = Now]
              c2 == [conns EXCEPT ![w].claudeSessionId = sid]
              joined == [Msg(w, "session_joined") EXCEPT
                           !.sessionId = sid,
                           !.active = s2[sid].active,
                           !.outputBuffer = SliceLast(s2[sid].outputBuffer, ReplayLimit)]
          IN [sessions |-> s2, conns |-> c2,
              msgs |-> LeaveMsgs(conns, w) \cup SendToWebSocket(c2, joined)]

\* Mutant of JoinResult: session_joined goes to every connection of the session,
\* the way a broadcast would send it.
JoinResultAnnouncesToAll(sessions, conns, w, sid) ==
  IF sid \notin DOMAIN sessions
  THEN [sessions |-> sessions, conns |-> conns,
        msgs |-> SendToWebSocket(conns, [Msg(w, "error") EXCEPT !.message = NotFoundMsg])]
  ELSE LET s1 == LeaveSessions(sessions, conns, w)
           s2 == [s1 EXCEPT ![sid].connections = @ \cup {w}, ![sid].lastActivity = Now]
           c2 == [conns EXCEPT ![w].claudeSessionId = sid]
           joined(x) == [Msg(x, "session_joined") EXCEPT
                           !.sessionId = sid,
                           !.active = s2[sid].active,
                           !.outputBuffer = SliceLast(s2[sid].outputBuffer, ReplayLimit)]
       IN [sessions |-> s2, conns |-> c2,
           msgs |-> LeaveMsgs(conns, w) \cup
                    UNION {SendToWebSocket(c2, joined(x)) : x \in s2[sid].connections}]

\* joinClaudeSession for a registered connection w.
JoinResult(sessions, conns, w, sid) ==
  IF sid \notin DOMAIN sessions
  THEN [sessions |-> sessions, conns |-> conns,
        msgs |-> SendToWebSocket(conns, [Msg(w, "error") EXCEPT !.message = NotFoundMsg])]
  ELSE LET s1 == LeaveSessions(sessions, conns, w)
           s2 == [s1 EXCEPT ![sid].connections = @ \cup {w}, ![sid].lastActivity = Now]
           c2 == [conns EXCEPT ![w].claudeSessionId = sid]
           joined == [Msg(w, "session_joined") EXCEPT
                        !.sessionId = sid,
                        !.active = s2[sid].active,
                        !.outputBuffer = SliceLast(s2[sid].outputBuffer, ReplayLimit)]
       IN [sessions |-> s2, conns |-> c2,
           msgs |-> LeaveMsgs(conns, w) \cup SendToWebSocket(c2, joined)]

\* handleWebSocketConnection: register the connection, greet it, and auto-join
\* the session named in the URL when it exists.
HandleWebSocketConnection(sid) ==
  /\ Serving
  /\ nextWsId < limits.conns
  /\ LET w == nextWsId + 1
         c1 == (w :> [claudeSessionId |-> NoSession, readyState |-> "OPEN"])
                 @@ webSocketConnections
         r == IF sid # NoSession /\ sid \in DOMAIN claudeSessions
              THEN JoinResult(claudeSessions, c1, w, sid)
              ELSE [sessions |-> claudeSessions, conns |-> c1, msgs |-> {}]
     IN /\ nextWsId' = w
        /\ webSocketConnections' = r.conns
        /\ claudeSessions' = r.sessions
        /\ sent' = {Msg(w, "connected")} \cup r.msgs
        /\ inbox' = Receive(inbox, sent', emitted)
  /\ UNCHANGED <<nextSessionId, bridge, pendingStarts, starts, limits, emitted>>
  /\ forwarded' = {}
  /\ UNCHANGED <<pendingStops, idleByStop>>
  /\ UNCHANGED <<phase, sessionStore, restored, atShutdown>>

\* createAndJoinSession (the create_session message).
CreateAndJoinSession(w, name, workingDir) ==
  /\ Serving
  /\ w \in DOMAIN webSocketConnections
  /\ IF workingDir # "" /\ ~ValidatePath(workingDir)
     THEN /\ sent' = SendToWebSocket(webSocketConnections,
                       [Msg(w, "error") EXCEPT !.message = BadWorkingDirMsg])
          /\ UNCHANGED <<claudeSessions, webSocketConnections, nextSessionId,
                         sessionStore>>
     ELSE /\ nextSessionId < limits.sessions
          /\ LET sid == nextSessionId + 1
             IN /\ nextSessionId' = sid
                /\ claudeSessions' =
                     (sid :> NewSession({w}, name, workingDir)) @@ claudeSessions
                /\ webSocketConnections' =
                     [webSocketConnections EXCEPT ![w].claudeSessionId = sid]
                /\ sessionStore' \in SaveResults(claudeSessions', sessionStore)
                /\ sent' = SendToWebSocket(webSocketConnections,
                             [Msg(w, "session_created") EXCEPT !.sessionId = sid])
  /\ inbox' = [Receive(inbox, sent', emitted) EXCEPT ![w] =
                 IF sent' = {} /\ nextSessionId' # nextSessionId THEN EmptyInbox ELSE @]
  /\ UNCHANGED <<nextWsId, bridge, pendingStarts, starts, limits, emitted>>
  /\ forwarded' = {}
  /\ UNCHANGED <<pendingStops, idleByStop>>
  /\ UNCHANGED <<phase, restored, atShutdown>>

\* The status POST /api/sessions/create answers with.
HttpCreateStatus(workingDir) ==
  IF workingDir # "" /\ ~ValidatePath(workingDir) THEN 403 ELSE 200

\* POST /api/sessions/create
HttpCreateSession(name, workingDir) ==
  /\ Serving
  /\ sent' = {}
  /\ IF HttpCreateStatus(workingDir) = 403
     THEN UNCHANGED <<claudeSessions, nextSessionId, sessionStore>>
     ELSE /\ nextSessionId < limits.sessions
          /\ nextSessionId' = nextSessionId + 1
          /\ claudeSessions' =
               (nextSessionId' :> NewSession({}, name, workingDir)) @@ claudeSessions
          /\ sessionStore' \in SaveResults(claudeSessions', sessionStore)
  /\ UNCHANGED <<webSocketConnections, nextWsId, bridge, pendingStarts, starts,
                 limits, emitted, inbox>>
  /\ forwarded' = {}
  /\ UNCHANGED <<pendingStops, idleByStop>>
  /\ UNCHANGED <<phase, restored, atShutdown>>

\* joinClaudeSession (the join_session message).
JoinClaudeSession(w, sid) ==
  /\ Serving
  /\ w \in DOMAIN webSocketConnections
  /\ LET r == JoinResult(claudeSessions, webSocketConnections, w, sid)
     IN /\ claudeSessions' = r.sessions
        /\ webSocketConnections' = r.conns
        /\ sent' = r.msgs
  /\ inbox' = [Receive(inbox, sent', emitted) EXCEPT ![w] =
                 IF sent' = {} /\ sid \in DOMAIN claudeSessions THEN EmptyInbox ELSE @]
  /\ UNCHANGED <<nextSessionId, nextWsId, bridge, pendingStarts, starts, limits, emitted>>
  /\ forwarded' = {}
  /\ UNCHANGED <<pendingStops, idleByStop>>
  /\ UNCHANGED <<phase, sessionStore, restored, atShutdown>>

\* leaveClaudeSession (the leave_session message).
LeaveClaudeSession(w) ==
  /\ Serving
  /\ w \in DOMAIN webSocketConnections
  /\ claudeSessions' = LeaveSessions(claudeSessions, webSocketConnections, w)
  /\ webSocketConnections' = [webSocketConnections EXCEPT ![w].claudeSessionId = NoSession]
  /\ sent' = LeaveMsgs(webSocketConnections, w)
  /\ inbox' = [Receive(inbox, sent', emitted) EXCEPT ![w] =
                 IF webSocketConnections[w].claudeSessionId # NoSession
                 THEN EmptyInbox ELSE @]
  /\ UNCHANGED <<nextSessionId, nextWsId, bridge, pendingStarts, starts, limits, emitted>>
  /\ forwarded' = {}
  /\ UNCHANGED <<pendingStops, idleByStop>>
  /\ UNCHANGED <<phase, sessionStore, restored, atShutdown>>

\* The peer closes or the transport breaks: readyState leaves OPEN before the
\* 'close' event is handled.
TransportClose(w) ==
  /\ Serving
  /\ IsOpen(webSocketConnections, w)
  /\ webSocketConnections' = [webSocketConnections EXCEPT ![w].readyState = "CLOSING"]
  /\ sent' = {}
  /\ UNCHANGED <<claudeSessions, nextSessionId, nextWsId, bridge, pendingStarts,
                 starts, limits, emitted, inbox>>
  /\ forwarded' = {}
  /\ UNCHANGED <<pendingStops, idleByStop>>
  /\ UNCHANGED <<phase, sessionStore, restored, atShutdown>>

\* cleanupWebSocketConnection (the 'close' and 'error' events of the socket).
CleanupWebSocketConnection(w) ==
  /\ Serving
  /\ w \in DOMAIN webSocketConnections
  /\ claudeSessions' = LeaveSessions(claudeSessions, webSocketConnections, w)
  /\ webSocketConnections' =
       [x \in DOMAIN webSocketConnections \ {w} |-> webSocketConnections[x]]
  /\ sent' = {}
  /\ inbox' = [inbox EXCEPT ![w] = EmptyInbox]
  /\ UNCHANGED <<nextSessionId, nextWsId, bridge, pendingStarts, starts, limits, emitted>>
  /\ forwarded' = {}
  /\ UNCHANGED <<pendingStops, idleByStop>>
  /\ UNCHANGED <<phase, sessionStore, restored, atShutdown>>

\* ------------------------------------------------------------ the bridges
\* ClaudeBridge / CodexBridge / AgentBridge .startSession, up to the point where
\* the caller is suspended: it fails fast when the variant already holds a
\* process for the session id; otherwise the spawn succeeds or fails.
BridgeStartOutcomes(b, kind, sid) ==
  IF b[kind][sid] # "none"
  THEN {[ok |-> FALSE, bridge |-> b]}
  ELSE {[ok |-> TRUE, bridge |-> [b EXCEPT ![kind][sid] = "running"]],
        [ok |-> FALSE, bridge |-> b]}

\* .stopSession: idempotent; a running process is told to stop.
BridgeStop(b, kind, sid) ==
  IF b[kind][sid] = "running" THEN [b EXCEPT ![kind][sid] = "stopping"] ELSE b

\* A variant delivers output only for a process it has not been told to stop.
BridgeDelivers(b, kind, sid) == b[kind][sid] = "running"

BridgeHasProcess(b, kind, sid) == b[kind][sid] # "none"

\* The process ends, stopped or not: the variant forgets it and fires onExit once.
BridgeExit(b, kind, sid) == [b EXCEPT ![kind][sid] = "none"]

\* ------------------------------------------------------- start and stop
\* startClaude / startCodex / startAgent up to the await of startSession.
StartRequest(w, kind) ==
  /\ Serving
  /\ w \in DOMAIN webSocketConnections
  /\ LET sid == webSocketConnections[w].claudeSessionId
     IN IF sid = NoSession
           THEN /\ sent' = SendToWebSocket(webSocketConnections,
                             [Msg(w, "error") EXCEPT !.message = NoSessionJoinedMsg])
                /\ UNCHANGED <<bridge, pendingStarts, starts>>
           ELSE IF sid \notin DOMAIN claudeSessions
           THEN /\ sent' = {}
                /\ UNCHANGED <<bridge, pendingStarts, starts>>
           ELSE IF AlreadyActive(claudeSessions[sid])
           THEN /\ sent' = SendToWebSocket(webSocketConnections,
                             [Msg(w, "error") EXCEPT !.message = AlreadyRunningMsg])
                /\ UNCHANGED <<bridge, pendingStarts, starts>>
           ELSE /\ starts < limits.starts
                /\ kind \in limits.kinds
                /\ \E o \in BridgeStartOutcomes(bridge, kind, sid) :
                     /\ bridge' = o.bridge
                     /\ pendingStarts' = pendingStarts \cup
                          {[ws |-> w, sessionId |-> sid, agent |-> kind,
                            ok |-> o.ok]}
                /\ starts' = starts + 1
                /\ sent' = {}
  /\ inbox' = Receive(inbox, sent', emitted)
  /\ UNCHANGED <<claudeSessions, webSocketConnections, nextSessionId, nextWsId, limits, emitted>>
  /\ forwarded' = {}
  /\ UNCHANGED <<pendingStops, idleByStop>>
  /\ UNCHANGED <<phase, sessionStore, restored, atShutdown>>

\* Mutant of MarkStarted: the start time is taken anew at every successful start.
MarkStartedResetsTime(session, kind, now) ==
  [session EXCEPT !.active = TRUE,
                  !.agent = kind,
                  !.lastActivity = now,
                  !.sessionStartTime = now]

\* The assignments after the await, on the session object the handler captured.
MarkStarted(session, kind, now) ==
  [session EXCEPT !.active = TRUE,
                  !.agent = kind,
                  !.lastActivity = now,
                  !.sessionStartTime = IF @ = 0 THEN now ELSE @]

\* Mutant of StartOutcome: the assignments are made whether or not startSession
\* threw.
StartOutcomeAlwaysMarks(session, ok, kind, now) == MarkStarted(session, kind, now)

\* The try block after the await, or the catch block, which leaves the session
\* alone.
StartOutcome(session, ok, kind, now) ==
  IF ok THEN MarkStarted(session, kind, now) ELSE session

\* Mutant of StartReturn: a start that succeeded registers its session again
\* when the id is gone from the registry.
StartReturnReRegisters(p) ==
  /\ Serving
  /\ p \in pendingStarts
  /\ pendingStarts' = pendingStarts \ {p}
  /\ claudeSessions' =
       IF p.sessionId \in DOMAIN claudeSessions
       THEN [claudeSessions EXCEPT ![p.sessionId] = StartOutcome(@, p.ok, p.agent, starts)]
       ELSE IF p.ok
       THEN (p.sessionId :> MarkStarted(NewSession({}, "", ""), p.agent, starts))
              @@ claudeSessions
       ELSE claudeSessions
  /\ sent' = IF p.ok
             THEN BroadcastToSession(claudeSessions', webSocketConnections,
                                     p.sessionId, p.agent \o "_started")
             ELSE SendToWebSocket(webSocketConnections,
                    [Msg(p.ws, "error") EXCEPT !.message = FailedToStartMsg])
  /\ inbox' = Receive(inbox, sent', emitted)
  /\ idleByStop' = IF p.ok THEN idleByStop \ {p.sessionId} ELSE idleByStop
  /\ forwarded' = {}
  /\ UNCHANGED <<webSocketConnections, nextSessionId, nextWsId, bridge, starts, limits,
                 emitted, pendingStops>>
  /\ UNCHANGED <<phase, sessionStore, restored, atShutdown>>

\* startClaude / startCodex / startAgent from the await on: the success path or
\* the catch block.
StartReturn(p) ==
  /\ Serving
  /\ p \in pendingStarts
  /\ pendingStarts' = pendingStarts \ {p}
  /\ claudeSessions' =
       IF p.sessionId \in DOMAIN claudeSessions
       THEN [claudeSessions EXCEPT ![p.sessionId] = StartOutcome(@, p.ok, p.agent, starts)]
       ELSE claudeSessions
  /\ sent' = IF p.ok
             THEN BroadcastToSession(claudeSessions', webSocketConnections,
                                     p.sessionId, p.agent \o "_started")
             ELSE SendToWebSocket(webSocketConnections,
                    [Msg(p.ws, "error") EXCEPT !.message = FailedToStartMsg])
  /\ inbox' = Receive(inbox, sent', emitted)
  /\ idleByStop' = IF p.ok THEN idleByStop \ {p.sessionId} ELSE idleByStop
  /\ forwarded' = {}
  /\ UNCHANGED <<webSocketConnections, nextSessionId, nextWsId, bridge, starts, limits,
                 emitted, pendingStops>>
  /\ UNCHANGED <<phase, sessionStore, restored, atShutdown>>

\* The bridge variant the 'stop' case of handleMessage picks.
StopVariant(sessions, sid) ==
  IF sid \in DOMAIN sessions /\ sessions[sid].agent \in {"codex", "agent"}
  THEN sessions[sid].agent
  ELSE "claude"

MarkStopped(session) ==
  [session EXCEPT !.active = FALSE, !.agent = "null", !.lastActivity = Now]

\* Mutant of StopAccepted: the check of session.active is missing.
StopAcceptedAlways(session) == TRUE

\* "if (!session || !session.active) return" at the head of stopClaude /
\* stopCodex / stopAgent.
StopAccepted(session) == session.active

\* handleMessage 'stop' -> stopClaude / stopCodex / stopAgent up to the await of
\* stopSession: the variant is picked by session.agent, an idle or missing
\* session returns at once.
StopRequest(w) ==
  /\ Serving
  /\ w \in DOMAIN webSocketConnections
  /\ LET sid == webSocketConnections[w].claudeSessionId
         kind == StopVariant(claudeSessions, sid)
     IN IF sid # NoSession /\ sid \in DOMAIN claudeSessions /\ StopAccepted(claudeSessions[sid])
           THEN /\ bridge' = BridgeStop(bridge, kind, sid)
                /\ pendingStops' = pendingStops \cup {[sessionId |-> sid, agent |-> kind]}
           ELSE UNCHANGED <<bridge, pendingStops>>
  /\ sent' = {}
  /\ forwarded' = {}
  /\ UNCHANGED <<claudeSessions, webSocketConnections, nextSessionId, nextWsId,
                 pendingStarts, starts, limits, emitted, inbox, idleByStop>>
  /\ UNCHANGED <<phase, sessionStore, restored, atShutdown>>

\* stopClaude / stopCodex / stopAgent from the await on, on the session object
\* the handler captured.
StopReturn(p) ==
  /\ Serving
  /\ p \in pendingStops
  /\ pendingStops' = pendingStops \ {p}
  /\ claudeSessions' =
       IF p.sessionId \in DOMAIN claudeSessions
       THEN [claudeSessions EXCEPT ![p.sessionId] = MarkStopped(@)]
       ELSE claudeSessions
  /\ idleByStop' = IF p.sessionId \in DOMAIN claudeSessions
                   THEN idleByStop \cup {p.sessionId}
                   ELSE idleByStop
  /\ sent' = BroadcastToSession(claudeSessions', webSocketConnections,
                                p.sessionId, p.agent \o "_stopped")
  /\ inbox' = Receive(inbox, sent', emitted)
  /\ forwarded' = {}
  /\ UNCHANGED <<webSocketConnections, nextSessionId, nextWsId, bridge, pendingStarts,
                 starts, limits, emitted>>
  /\ UNCHANGED <<phase, sessionStore, restored, atShutdown>>

\* ------------------------------------------------------ input and resize
\* The bridge variant the 'input' and 'resize' cases of handleMessage pick.
InputVariant(session) ==
  IF session.agent \in {"codex", "agent"} THEN session.agent ELSE "claude"

\* Mutant of ForwardAllowed: the check of session.active is missing.
ForwardAllowedIgnoringActive(session) == session.agent # "null"

\* "Only send if an agent is running in this session"
ForwardAllowed(session) == session.active /\ session.agent # "null"

\* .sendInput / .resize throw when the variant has no running process for the id.
BridgeAccepts(b, kind, sid) == b[kind][sid] = "running"

\* handleMessage 'input' and 'resize'.
HandleInput(w, op) ==
  /\ Serving
  /\ w \in DOMAIN webSocketConnections
  /\ LET sid == webSocketConnections[w].claudeSessionId
     IN IF /\ sid # NoSession
           /\ sid \in DOMAIN claudeSessions
           /\ w \in claudeSessions[sid].connections
        THEN LET session == claudeSessions[sid]
                 kind == InputVariant(session)
             IN IF ForwardAllowed(session)
                THEN /\ forwarded' = {[op |-> op, agent |-> kind, sessionId |-> sid]}
                     /\ sent' = IF op = "input" /\ ~BridgeAccepts(bridge, kind, sid)
                                THEN SendToWebSocket(webSocketConnections,
                                       [Msg(w, "error") EXCEPT !.message = AgentNotRunningMsg])
                                ELSE {}
                ELSE /\ forwarded' = {}
                     /\ sent' = IF op = "input"
                                THEN SendToWebSocket(webSocketConnections,
                                       [Msg(w, "info") EXCEPT !.message = NoAgentMsg])
                                ELSE {}
        ELSE /\ forwarded' = {}
             /\ sent' = {}
  /\ UNCHANGED <<claudeSessions, webSocketConnections, nextSessionId, nextWsId, bridge,
                 pendingStarts, starts, limits, emitted, inbox, pendingStops, idleByStop>>
  /\ UNCHANGED <<phase, sessionStore, restored, atShutdown>>

\* Mutant of HandleMalformedMessage: the catch drops the connection that sent
\* the frame.
HandleMalformedMessageDropsSender(w) ==
  /\ Serving
  /\ w \in DOMAIN webSocketConnections
  /\ webSocketConnections' =
       [x \in DOMAIN webSocketConnections \ {w} |-> webSocketConnections[x]]
  /\ sent' = {}
  /\ forwarded' = {}
  /\ UNCHANGED <<claudeSessions, nextSessionId, nextWsId, bridge, pendingStarts,
                 starts, limits, emitted, inbox, pendingStops, idleByStop>>
  /\ UNCHANGED <<phase, sessionStore, restored, atShutdown>>

\* The 'message' handler of a connection when JSON.parse (or the property read
\* of a parsed value that is not an object) throws: the catch answers the
\* socket the frame came from and nothing else is touched.
HandleMalformedMessage(w) ==
  /\ Serving
  /\ w \in DOMAIN webSocketConnections
  /\ sent' = SendToWebSocket(webSocketConnections,
                [Msg(w, "error") EXCEPT !.message = FailedToProcessMsg])
  /\ forwarded' = {}
  /\ UNCHANGED <<claudeSessions, webSocketConnections, nextSessionId, nextWsId, bridge,
                 pendingStarts, starts, limits, emitted, inbox, pendingStops, idleByStop>>
  /\ UNCHANGED <<phase, sessionStore, restored, atShutdown>>

\* ------------------------------------------------------- bridge callbacks
RECURSIVE SumOver(_, _)
SumOver(f, S) ==
  IF S = {} THEN 0
  ELSE LET x == CHOOSE x \in S : TRUE IN f[x] + SumOver(f, S \ {x})

TotalEmitted == SumOver(emitted, SessionIds)

\* onOutput of the callbacks startClaude / startCodex / startAgent pass.
OnOutputSession(session, data) ==
  [session EXCEPT !.outputBuffer = PushOutput(@, data, session.maxBufferSize)]

ProcessOutput(kind, sid) ==
  /\ Serving
  /\ BridgeDelivers(bridge, kind, sid)
  /\ TotalEmitted < limits.emits
  /\ IF sid \in DOMAIN claudeSessions
     THEN LET data == emitted[sid] + 1
          IN /\ emitted' = [emitted EXCEPT ![sid] = data]
             /\ claudeSessions' = [claudeSessions EXCEPT ![sid] = OnOutputSession(@, data)]
             /\ sent' = {[m EXCEPT !.data = data] :
                           m \in BroadcastToSession(claudeSessions', webSocketConnections,
                                                    sid, "output")}
     ELSE /\ sent' = {}
          /\ UNCHANGED <<emitted, claudeSessions>>
  /\ inbox' = Receive(inbox, sent', emitted)
  /\ UNCHANGED <<webSocketConnections, nextSessionId, nextWsId, bridge, pendingStarts,
                 starts, limits>>
  /\ forwarded' = {}
  /\ UNCHANGED <<pendingStops, idleByStop>>
  /\ UNCHANGED <<phase, sessionStore, restored, atShutdown>>

\* onExit / onError: startClaude's clear only the active flag, startCodex's and
\* startAgent's clear the agent too.
OnExitSession(session, kind) ==
  IF kind = "claude"
  THEN [session EXCEPT !.active = FALSE]
  ELSE [session EXCEPT !.active = FALSE, !.agent = "null"]

Callback(kind, sid, type) ==
  /\ claudeSessions' =
       IF sid \in DOMAIN claudeSessions
       THEN [claudeSessions EXCEPT ![sid] = OnExitSession(@, kind)]
       ELSE claudeSessions
  /\ sent' = BroadcastToSession(claudeSessions', webSocketConnections, sid, type)
  /\ inbox' = Receive(inbox, sent', emitted)

\* The process ends: onExit fires once and the variant forgets the process.
ProcessExit(kind, sid) ==
  /\ Serving
  /\ BridgeHasProcess(bridge, kind, sid)
  /\ bridge' = BridgeExit(bridge, kind, sid)
  /\ Callback(kind, sid, "exit")
  /\ UNCHANGED <<webSocketConnections, nextSessionId, nextWsId, pendingStarts,
                 starts, limits, emitted>>
  /\ forwarded' = {}
  /\ UNCHANGED <<pendingStops, idleByStop>>
  /\ UNCHANGED <<phase, sessionStore, restored, atShutdown>>

\* onError fires; the process may live on.
ProcessError(kind, sid) ==
  /\ Serving
  /\ BridgeDelivers(bridge, kind, sid)
  /\ Callback(kind, sid, "error")
  /\ UNCHANGED <<webSocketConnections, nextSessionId, nextWsId, bridge, pendingStarts,
                 starts, limits, emitted>>
  /\ forwarded' = {}
  /\ UNCHANGED <<pendingStops, idleByStop>>
  /\ UNCHANGED <<phase, sessionStore, restored, atShutdown>>

\* ----------------------------------------------------------------- delete
\* Mutant of DeleteTargets: only the first open connection is notified and closed.
DeleteTargetsFirst(sessions, conns, sid) ==
  {w \in sessions[sid].connections :
     /\ IsOpen(conns, w)
     /\ \A v \in sessions[sid].connections : IsOpen(conns, v) => w <= v}

\* DELETE /api/sessions/:sessionId: the connections it notifies and closes.
DeleteTargets(sessions, conns, sid) ==
  {w \in sessions[sid].connections : IsOpen(conns, w)}

\* The status DELETE /api/sessions/:sessionId answers with.
HttpDeleteStatus(sessions, sid) ==
  IF sid \in DOMAIN sessions THEN 200 ELSE 404

\* Mutant of DeleteReachesSave: the save is made for an unknown id as well.
DeleteReachesSaveAlways(sessions, sid) == TRUE

\* The return of the 404 comes before everything else in the handler, the
\* save included.
DeleteReachesSave(sessions, sid) == sid \in DOMAIN sessions

HttpDeleteSession(sid) ==
  /\ Serving
  /\ IF HttpDeleteStatus(claudeSessions, sid) = 404
     THEN /\ sent' = {}
          /\ UNCHANGED <<claudeSessions, webSocketConnections, bridge>>
     ELSE LET targets == DeleteTargets(claudeSessions, webSocketConnections, sid)
          IN /\ bridge' = IF claudeSessions[sid].active
                          THEN BridgeStop(bridge, "claude", sid)
                          ELSE bridge
             /\ sent' = {[Msg(w, "session_deleted") EXCEPT !.sessionId = sid] : w \in targets}
             /\ webSocketConnections' =
                  [w \in DOMAIN webSocketConnections |->
                     IF w \in targets
                     THEN [webSocketConnections[w] EXCEPT !.readyState = "CLOSING"]
                     ELSE webSocketConnections[w]]
             /\ claudeSessions' =
                  [s \in DOMAIN claudeSessions \ {sid} |-> claudeSessions[s]]
  /\ sessionStore' \in IF DeleteReachesSave(claudeSessions, sid)
                        THEN SaveResults(claudeSessions', sessionStore)
                        ELSE {sessionStore}
  /\ inbox' = Receive(inbox, sent', emitted)
  /\ idleByStop' = idleByStop \ {sid}
  /\ forwarded' = {}
  /\ UNCHANGED <<nextSessionId, nextWsId, pendingStarts, starts, limits, emitted,
                 pendingStops>>
  /\ UNCHANGED <<phase, restored, atShutdown>>

\* ------------------------------------------------ save, shutdown, startup
\* Mutant of AutoSave: a save that fails ends the process.
AutoSaveCrashing(outcome) ==
  /\ Serving
  /\ sessionStore' = SaveSessionsToDisk(claudeSessions, sessionStore, outcome)
  /\ phase' = IF DOMAIN claudeSessions # {} /\ outcome = "failure" THEN "down" ELSE phase
  /\ sent' = {}
  /\ forwarded' = {}
  /\ UNCHANGED <<claudeSessions, webSocketConnections, nextSessionId, nextWsId, bridge,
                 pendingStarts, starts, limits, emitted, inbox, pendingStops,
                 idleByStop, restored, atShutdown>>

\* The setInterval callback of setupAutoSave: the outcome of the save is not
\* looked at.
AutoSave(outcome) ==
  /\ Serving
  /\ sessionStore' = SaveSessionsToDisk(claudeSessions, sessionStore, outcome)
  /\ sent' = {}
  /\ forwarded' = {}
  /\ UNCHANGED <<claudeSessions, webSocketConnections, nextSessionId, nextWsId, bridge,
                 pendingStarts, starts, limits, emitted, inbox, pendingStops,
                 idleByStop, phase, restored, atShutdown>>

\* handleShutdown (SIGINT / SIGTERM) up to the await of the save; a signal that
\* arrives while isShuttingDown is set returns at once.
ShutdownRequest ==
  /\ Serving
  /\ phase \in {"up", "stopping"}
  /\ IF phase = "stopping"
     THEN UNCHANGED <<phase, sessionStore, atShutdown>>
     ELSE /\ phase' = "stopping"
          /\ \E o \in limits.saves :
               /\ sessionStore' = SaveSessionsToDisk(claudeSessions, sessionStore, o)
               /\ atShutdown' = [sessions |-> DOMAIN claudeSessions,
                                 saved |-> o = "ack"]
  /\ sent' = {}
  /\ forwarded' = {}
  /\ UNCHANGED <<claudeSessions, webSocketConnections, nextSessionId, nextWsId, bridge,
                 pendingStarts, starts, limits, emitted, inbox, pendingStops,
                 idleByStop, restored>>

\* Mutant of ShutdownReturn: the save close() issues reads the registry after
\* close() has cleared it and overwrites the snapshot with what it finds.
ShutdownReturnSavesCleared ==
  /\ phase = "stopping"
  /\ phase' = "down"
  /\ sessionStore' = IF DOMAIN claudeSessions # {} THEN <<>> ELSE sessionStore
  /\ claudeSessions' = <<>>
  /\ webSocketConnections' = <<>>
  /\ nextSessionId' = MaxId(sessionStore')
  /\ nextWsId' = 0
  /\ bridge' = [k \in Kinds |-> [s \in SessionIds |-> "none"]]
  /\ pendingStarts' = {}
  /\ starts' = 0
  /\ emitted' = [s \in SessionIds |-> 0]
  /\ inbox' = [w \in ConnIds |-> EmptyInbox]
  /\ sent' = {}
  /\ pendingStops' = {}
  /\ idleByStop' = {}
  /\ forwarded' = {}
  /\ restored' = {}
  /\ UNCHANGED <<limits, atShutdown>>

\* handleShutdown from the await on: close() calls saveSessionsToDisk once more
\* without awaiting it, stops the active sessions and clears both maps, and
\* process.exit ends the process, before or after the store has written.
ShutdownReturn ==
  /\ phase = "stopping"
  /\ phase' = "down"
  /\ sessionStore' \in SaveResults(claudeSessions, sessionStore) \cup {sessionStore}
  /\ claudeSessions' = <<>>
  /\ webSocketConnections' = <<>>
  /\ nextSessionId' = MaxId(sessionStore')
  /\ nextWsId' = 0
  /\ bridge' = [k \in Kinds |-> [s \in SessionIds |-> "none"]]
  /\ pendingStarts' = {}
  /\ starts' = 0
  /\ emitted' = [s \in SessionIds |-> 0]
  /\ inbox' = [w \in ConnIds |-> EmptyInbox]
  /\ sent' = {}
  /\ pendingStops' = {}
  /\ idleByStop' = {}
  /\ forwarded' = {}
  /\ restored' = {}
  /\ UNCHANGED <<limits, atShutdown>>

\* The server is started again: the constructor, which starts the load and
\* does not await it.
Construct ==
  /\ phase = "down"
  /\ phase' = "loading"
  /\ atShutdown' = NoShutdown
  /\ UNCHANGED <<claudeSessions, webSocketConnections, nextSessionId, nextWsId, bridge,
                 pendingStarts, starts, limits, emitted, inbox, sent, pendingStops,
                 idleByStop, forwarded, sessionStore, restored>>

\* Mutant of LoadPersistedSessions: the map the store answered is dropped.
LoadPersistedSessionsDropsAnswer ==
  /\ phase = "loading"
  /\ phase' = "up"
  /\ restored' = {}
  /\ sent' = {}
  /\ forwarded' = {}
  /\ idleByStop' = {}
  /\ UNCHANGED <<claudeSessions, webSocketConnections, nextSessionId, nextWsId, bridge,
                 pendingStarts, starts, limits, emitted, inbox, pendingStops,
                 sessionStore, atShutdown>>

\* loadPersistedSessions from the await on: the registry is replaced by the
\* map the store answered.
LoadPersistedSessions ==
  /\ phase = "loading"
  /\ phase' = "up"
  /\ claudeSessions' = Restore(sessionStore)
  /\ restored' = DOMAIN sessionStore
  /\ sent' = {}
  /\ forwarded' = {}
  /\ idleByStop' = {}
  /\ UNCHANGED <<webSocketConnections, nextSessionId, nextWsId, bridge, pendingStarts,
                 starts, limits, emitted, inbox, pendingStops, sessionStore, atShutdown>>

\* ------------------------------------------------------------------- Next
Next ==
  \/ \E sid \in SessionIds \cup {NoSession} : HandleWebSocketConnection(sid)
  \/ \E w \in ConnIds, r \in limits.requests :
       CreateAndJoinSession(w, r.name, r.workingDir)
  \/ \E r \in limits.requests : HttpCreateSession(r.name, r.workingDir)
  \/ \E w \in ConnIds, sid \in SessionIds : JoinClaudeSession(w, sid)
  \/ \E w \in ConnIds : LeaveClaudeSession(w)
  \/ \E w \in ConnIds : TransportClose(w)
  \/ \E w \in ConnIds : CleanupWebSocketConnection(w)
  \/ \E w \in ConnIds, k \in Kinds : StartRequest(w, k)
  \/ \E p \in pendingStarts : StartReturn(p)
  \/ \E w \in ConnIds : StopRequest(w)
  \/ \E p \in pendingStops : StopReturn(p)
  \/ \E w \in ConnIds, op \in InputOps : HandleInput(w, op)
  \/ \E w \in ConnIds : HandleMalformedMessage(w)
  \/ \E k \in Kinds, sid \in SessionIds : ProcessOutput(k, sid)
  \/ \E k \in Kinds, sid \in SessionIds : ProcessExit(k, sid)
  \/ \E k \in Kinds, sid \in SessionIds : ProcessError(k, sid)
  \/ \E sid \in SessionIds : HttpDeleteSession(sid)
  \/ \E o \in limits.saves : AutoSave(o)
  \/ ShutdownRequest
  \/ ShutdownReturn
  \/ Construct
  \/ LoadPersistedSessions

Spec == Init /\ [][Next]_vars

SpecStart == InitStart /\ [][Next]_vars

SpecOutput == InitOutput /\ [][Next]_vars

SpecRebind == InitRebind /\ [][Next]_vars

SpecPersist == InitPersist /\ [][Next]_vars

SpecShutdown == InitShutdown /\ [][Next]_vars

\* ================================================================ claims
BoundSession(w) == webSocketConnections[w].claudeSessionId

\* The connections bound to a registered session.
BoundTo(sid) ==
  {w \in DOMAIN webSocketConnections : BoundSession(w) = sid}

\* A session id that was handed out and is no longer registered.
Deleted(sid) == sid <= nextSessionId /\ sid \notin DOMAIN claudeSessions

\* The chunks a..b in emission order.
Run(a, b) == [i \in 1..(b - a + 1) |-> a + i - 1]

Processes(sid) == {k \in Kinds : bridge[k][sid] = "running"}

ErrorTo(w, text) == [Msg(w, "error") EXCEPT !.message = text]

\* C1 (as claimed): in every reachable state every session id has at most one
\* bridge process, counted over the claude, codex and agent bridges together.
C1_OneProcessPerSession ==
  \A sid \in SessionIds : Cardinality(Processes(sid)) <= 1

\* C2 (as claimed): a start request that arrives while another start of the
\* same session is still suspended in the bridge's startSession is rejected,
\* so two starts of one session are never in flight together.
C2_SecondStartRejected ==
  \A p, q \in pendingStarts : p.sessionId = q.sessionId => p = q

\* C3: a start request for a session that is already active sends the
\* already-running error to the requester only, calls no bridge, and leaves
\* the registry (active, agent, sessionStartTime, outputBuffer) and every
\* process as they were.
C3_ActiveSessionRejectsStart ==
  [][\A w \in ConnIds, k \in Kinds :
       (/\ w \in DOMAIN webSocketConnections
        /\ BoundSession(w) \in DOMAIN claudeSessions
        /\ claudeSessions[BoundSession(w)].active
        /\ StartRequest(w, k))
       => /\ sent' = SendToWebSocket(webSocketConnections, ErrorTo(w, AlreadyRunningMsg))
          /\ UNCHANGED <<claudeSessions, webSocketConnections, bridge, pendingStarts,
                         starts, emitted>>]_vars

\* C3's case: the requester of an active session was just sent the error while
\* another open connection bound to the same session was sent nothing.
C3_Witness ==
  \E w \in DOMAIN webSocketConnections :
    /\ BoundSession(w) \in DOMAIN claudeSessions
    /\ claudeSessions[BoundSession(w)].active
    /\ sent = {ErrorTo(w, AlreadyRunningMsg)}
    /\ \E v \in BoundTo(BoundSession(w)) : v # w /\ IsOpen(webSocketConnections, v)

\* C4: for a connection bound to a registered session, the replay it was sent
\* at the join followed by the output it has been sent since is one gap-free,
\* duplicate-free run of the session's emission order: the replay ends at the
\* last chunk emitted before the join, the live output starts at the next one,
\* and while the transport is open it reaches the last chunk emitted.
C4_ReplayThenLiveContiguous ==
  \A w \in DOMAIN webSocketConnections :
    BoundSession(w) \in DOMAIN claudeSessions =>
      LET ib == inbox[w]
      IN /\ ib.replay = Run(ib.at - Len(ib.replay) + 1, ib.at)
         /\ ib.live = Run(ib.at + 1, ib.at + Len(ib.live))
         /\ ib.at + Len(ib.live) <= emitted[BoundSession(w)]
         /\ IsOpen(webSocketConnections, w) =>
              ib.at + Len(ib.live) = emitted[BoundSession(w)]

\* C4's case: a connection joined mid-stream, got a replay and then live output.
C4_Witness ==
  \E w \in DOMAIN webSocketConnections :
    /\ BoundSession(w) \in DOMAIN claudeSessions
    /\ inbox[w].replay # <<>>
    /\ inbox[w].live # <<>>

\* C5 (as claimed): a connection that joined after K chunks, for every K below
\* maxBufferSize, was replayed exactly c1..cK and then gets c(K+1).. live.
C5_ReplayIsWholeHistory ==
  \A w \in DOMAIN webSocketConnections :
    (/\ BoundSession(w) \in DOMAIN claudeSessions
     /\ IsOpen(webSocketConnections, w)
     /\ inbox[w].at < claudeSessions[BoundSession(w)].maxBufferSize)
    => /\ inbox[w].replay = Run(1, inbox[w].at)
       /\ inbox[w].live = Run(inbox[w].at + 1, emitted[BoundSession(w)])

\* C5 (amended): the same for every K up to the replay length of session_joined
\* (slice(-200)): a longer history is replayed only in its last chunks.
C5_ReplayIsWholeHistoryUpToLimit ==
  \A w \in DOMAIN webSocketConnections :
    (/\ BoundSession(w) \in DOMAIN claudeSessions
     /\ IsOpen(webSocketConnections, w)
     /\ inbox[w].at < claudeSessions[BoundSession(w)].maxBufferSize
     /\ inbox[w].at <= ReplayLimit)
    => /\ inbox[w].replay = Run(1, inbox[w].at)
       /\ inbox[w].live = Run(inbox[w].at + 1, emitted[BoundSession(w)])

\* C5's case: a join after exactly ReplayLimit chunks, then a live chunk.
C5_Witness ==
  \E w \in DOMAIN webSocketConnections :
    /\ BoundSession(w) \in DOMAIN claudeSessions
    /\ IsOpen(webSocketConnections, w)
    /\ inbox[w].at = ReplayLimit
    /\ inbox[w].replay = Run(1, ReplayLimit)
    /\ inbox[w].live # <<>>

\* C6: a connection bound to a session before its first chunk, still bound and
\* open, has been sent every chunk c1..cN once, in emission order.
C6_BoundFromStartSeesAll ==
  \A w \in DOMAIN webSocketConnections :
    (/\ BoundSession(w) \in DOMAIN claudeSessions
     /\ IsOpen(webSocketConnections, w)
     /\ inbox[w].at = 0)
    => inbox[w].live = Run(1, emitted[BoundSession(w)])

\* C6's case: three chunks reached a connection bound from the start while a
\* second connection, joined later, shares the session.
C6_Witness ==
  \E w, v \in DOMAIN webSocketConnections :
    /\ BoundSession(w) \in DOMAIN claudeSessions
    /\ BoundSession(v) = BoundSession(w)
    /\ IsOpen(webSocketConnections, w)
    /\ inbox[w].at = 0
    /\ inbox[v].at > 0
    /\ Len(inbox[w].live) >= 3

\* C7: no session's outputBuffer is ever longer than its maxBufferSize.
C7_BufferBounded ==
  \A sid \in DOMAIN claudeSessions :
    Len(claudeSessions[sid].outputBuffer) <= claudeSessions[sid].maxBufferSize

\* C7's case: a session has emitted more chunks than its buffer holds.
C7_Witness ==
  \E sid \in DOMAIN claudeSessions :
    /\ emitted[sid] > claudeSessions[sid].maxBufferSize
    /\ Len(claudeSessions[sid].outputBuffer) = claudeSessions[sid].maxBufferSize

\* C8: after N chunks a session's outputBuffer is the last min(N, maxBufferSize)
\* of them in emission order; with capacity 2, pushing 1, 2, 3 leaves <<2, 3>>.
C8_BufferIsLatestChunks ==
  /\ \A sid \in DOMAIN claudeSessions :
       LET n == emitted[sid]
           cap == claudeSessions[sid].maxBufferSize
       IN claudeSessions[sid].outputBuffer = Run(IF n > cap THEN n - cap + 1 ELSE 1, n)
  /\ PushOutput(PushOutput(PushOutput(<<>>, 1, 2), 2, 2), 3, 2) = <<2, 3>>

\* C8's case: the oldest chunk has been evicted.
C8_Witness ==
  \E sid \in DOMAIN claudeSessions :
    /\ emitted[sid] > claudeSessions[sid].maxBufferSize
    /\ claudeSessions[sid].outputBuffer[1] = 2

\* C9: deleting a registered session S sends session_deleted to every
\* connection bound to S whose transport is open and closes it, and removes S;
\* S never comes back, and a later join_session for S sends the requester
\* 'Session not found' and changes no binding and no session.
C9_DeleteDisconnectsAndRemoves ==
  [][\A sid \in SessionIds :
       /\ (sid \in DOMAIN claudeSessions /\ HttpDeleteSession(sid))
          => /\ sid \notin DOMAIN claudeSessions'
             /\ \A w \in BoundTo(sid) :
                  IsOpen(webSocketConnections, w)
                  => /\ [Msg(w, "session_deleted") EXCEPT !.sessionId = sid] \in sent'
                     /\ ~IsOpen(webSocketConnections', w)
       /\ Deleted(sid) => sid \notin DOMAIN claudeSessions'
       /\ \A w \in ConnIds :
            (Deleted(sid) /\ JoinClaudeSession(w, sid))
            => /\ sent' = SendToWebSocket(webSocketConnections, ErrorTo(w, NotFoundMsg))
               /\ UNCHANGED <<claudeSessions, webSocketConnections>>]_vars

\* C9's case: every session has been deleted, a connection bound to a deleted
\* session was closed by the delete, and a join was answered 'Session not found'.
C9_Witness ==
  /\ nextSessionId = limits.sessions
  /\ DOMAIN claudeSessions = {}
  /\ \E w, v \in DOMAIN webSocketConnections :
       /\ sent = {ErrorTo(w, NotFoundMsg)}
       /\ v # w
       /\ BoundSession(v) # NoSession
       /\ ~IsOpen(webSocketConnections, v)

\* C10 (as claimed): deleting an active session leaves no bridge process
\* running for its id, whichever variant runs it.
C10_DeleteStopsProcess ==
  [][\A sid \in SessionIds :
       (/\ sid \in DOMAIN claudeSessions
        /\ claudeSessions[sid].active
        /\ HttpDeleteSession(sid))
       => Processes(sid)' = {}]_vars

\* C11 (as claimed): a registered connection is in a registered session's
\* connections set exactly when it is bound to that session, so it is in at
\* most one set.
C11_MemberIffBound ==
  \A w \in DOMAIN webSocketConnections, sid \in DOMAIN claudeSessions :
    w \in claudeSessions[sid].connections <=> BoundSession(w) = sid

\* C12 (as claimed): every id in a session's connections set is the id of a
\* registered connection.
C12_MembersAreRegistered ==
  \A sid \in DOMAIN claudeSessions :
    claudeSessions[sid].connections \subseteq DOMAIN webSocketConnections

\* C13 (as claimed): a session whose active flag is true has a live process in
\* one of the bridges.
C13_ActiveHasLiveProcess ==
  \A sid \in DOMAIN claudeSessions :
    claudeSessions[sid].active => \E k \in Kinds : BridgeHasProcess(bridge, k, sid)

\* C14 (as claimed): when onExit fires for a registered session, whatever the
\* kind, the session is left inactive with its agent reset to null, and every
\* open connection bound to it is sent the exit message.
C14_ExitResetsSession ==
  [][\A k \in Kinds, sid \in SessionIds :
       (sid \in DOMAIN claudeSessions /\ ProcessExit(k, sid))
       => /\ ~claudeSessions'[sid].active
          /\ claudeSessions'[sid].agent = "null"
          /\ \A w \in BoundTo(sid) :
               (w \in claudeSessions[sid].connections /\ IsOpen(webSocketConnections, w))
               => [Msg(w, "exit") EXCEPT !.sessionId = sid] \in sent']_vars

\* C15 (as claimed): once a stop request has marked a registered session idle
\* and until a later start succeeds, no step appends to the session's
\* outputBuffer or sends an output message for it.
C15_NoOutputAfterStop ==
  [][\A sid \in idleByStop :
       (sid \in DOMAIN claudeSessions /\ sid \in DOMAIN claudeSessions')
       => /\ claudeSessions'[sid].outputBuffer = claudeSessions[sid].outputBuffer
          /\ \A m \in sent' : ~(m.type = "output" /\ m.sessionId = sid)]_vars

\* C16 (as claimed): there is no state in which a stop request was accepted, the
\* bridge's stopSession has not returned yet, and the session is still active.
C16_StopMarksIdleAtOnce ==
  \A p \in pendingStops :
    p.sessionId \in DOMAIN claudeSessions => ~claudeSessions[p.sessionId].active

\* C17: whenever a handler calls a bridge's sendInput or resize, the call is for
\* the session of a registered connection that is bound to it and in its
\* connections set, the session is registered, active and has an agent kind,
\* and the variant called is the one the agent kind names.
C17_ForwardOnlyWhenActive ==
  [][\A c \in forwarded' :
       /\ c.sessionId \in DOMAIN claudeSessions
       /\ claudeSessions[c.sessionId].active
       /\ claudeSessions[c.sessionId].agent # "null"
       /\ c.agent = InputVariant(claudeSessions[c.sessionId])
       /\ \E w \in BoundTo(c.sessionId) : w \in claudeSessions[c.sessionId].connections]_vars

\* C17's case: a resize was just forwarded for an active session, and another
\* session that is not active has a bound connection.
C17_Witness ==
  \E c \in forwarded :
    /\ c.op = "resize"
    /\ c.sessionId \in DOMAIN claudeSessions
    /\ claudeSessions[c.sessionId].active
    /\ \E sid \in DOMAIN claudeSessions :
         ~claudeSessions[sid].active /\ BoundTo(sid) # {}

\* C18 (as claimed): an input or resize message of an open connection that is
\* bound to no session, or to a registered session that is not active, is
\* answered with the info advisory.
C18_AdvisoryWhenNotForwarded ==
  [][\A w \in ConnIds, op \in InputOps :
       (/\ IsOpen(webSocketConnections, w)
        /\ \/ BoundSession(w) = NoSession
           \/ /\ BoundSession(w) \in DOMAIN claudeSessions
              /\ ~claudeSessions[BoundSession(w)].active
        /\ HandleInput(w, op))
       => [Msg(w, "info") EXCEPT !.message = NoAgentMsg] \in sent']_vars

\* C19: a join_session for an id that is not in the registry, deleted or never
\* handed out, sends the requester 'Session not found' and nothing else, and
\* leaves every session (connections, lastActivity and all other fields),
\* every connection's binding and every process as they were.
C19_JoinUnknownChangesNothing ==
  [][\A w \in ConnIds, sid \in SessionIds :
       (sid \notin DOMAIN claudeSessions /\ JoinClaudeSession(w, sid))
       => /\ sent' = SendToWebSocket(webSocketConnections, ErrorTo(w, NotFoundMsg))
          /\ UNCHANGED <<claudeSessions, webSocketConnections, bridge, nextSessionId,
                         pendingStarts, pendingStops>>]_vars

\* C19's case: a connection bound to a registered session, and in its set, was
\* just answered 'Session not found' for an id that was never handed out.
C19_Witness ==
  /\ nextSessionId < limits.sessions
  /\ DOMAIN claudeSessions = 1..nextSessionId
  /\ \E w \in DOMAIN webSocketConnections :
       /\ sent = {ErrorTo(w, NotFoundMsg)}
       /\ BoundSession(w) \in DOMAIN claudeSessions
       /\ w \in claudeSessions[BoundSession(w)].connections

\* C20 (as claimed): when a connection bound to session A joins another
\* registered session B, it is removed from A's connections set and sent
\* session_left, it is bound to B, and after the join it is in the connections
\* set of B and of no other session; and no output message is ever sent to a
\* connection for a session it is not bound to.
C20_JoinMovesConnection ==
  [][/\ \A w \in ConnIds, B \in SessionIds :
          (/\ w \in DOMAIN webSocketConnections
           /\ BoundSession(w) \in DOMAIN claudeSessions
           /\ B \in DOMAIN claudeSessions
           /\ B # BoundSession(w)
           /\ JoinClaudeSession(w, B))
          => /\ w \notin claudeSessions'[BoundSession(w)].connections
             /\ IsOpen(webSocketConnections, w) => Msg(w, "session_left") \in sent'
             /\ webSocketConnections'[w].claudeSessionId = B
             /\ \A sid \in DOMAIN claudeSessions' :
                  w \in claudeSessions'[sid].connections <=> sid = B
     /\ \A m \in sent' :
          m.type = "output" => webSocketConnections[m.to].claudeSessionId = m.sessionId]_vars

\* C21: leave_session and the close of a connection stop no bridge: they leave
\* every process and every session's active flag, agent kind and outputBuffer
\* as they were, also when the session's last connection goes; and output of a
\* session without connections is still appended to its buffer.
C21_LeaveKeepsProcess ==
  [][/\ \A w \in ConnIds :
          (/\ w \in DOMAIN webSocketConnections
           /\ LeaveClaudeSession(w) \/ CleanupWebSocketConnection(w))
          => /\ bridge' = bridge
             /\ DOMAIN claudeSessions' = DOMAIN claudeSessions
             /\ \A sid \in DOMAIN claudeSessions :
                  /\ claudeSessions'[sid].active = claudeSessions[sid].active
                  /\ claudeSessions'[sid].agent = claudeSessions[sid].agent
                  /\ claudeSessions'[sid].outputBuffer = claudeSessions[sid].outputBuffer
     /\ \A k \in Kinds, sid \in SessionIds :
          (/\ sid \in DOMAIN claudeSessions
           /\ claudeSessions[sid].connections = {}
           /\ ProcessOutput(k, sid))
          => claudeSessions'[sid].outputBuffer =
               Append(claudeSessions[sid].outputBuffer, emitted[sid] + 1)]_vars

\* C21's case: a session that no connection is in or bound to is still active,
\* its process is running, and a chunk that reached nobody is in its buffer.
C21_Witness ==
  \E sid \in DOMAIN claudeSessions :
    /\ claudeSessions[sid].connections = {}
    /\ BoundTo(sid) = {}
    /\ nextWsId > 0
    /\ claudeSessions[sid].active
    /\ \E k \in Kinds : bridge[k][sid] = "running"
    /\ claudeSessions[sid].outputBuffer = <<1>>
    /\ sent = {}

\* C22: a broadcast for a registered session (output, exit, error, stopped)
\* sends the message to exactly the connections bound to the session whose
\* transport is open: a bound connection with a closed transport gets nothing,
\* keeps no open one from getting it, and no connection is torn down.
C22_BroadcastReachesOpenBound ==
  [][\A sid \in SessionIds :
       (/\ sid \in DOMAIN claudeSessions
        /\ \/ \E k \in Kinds : \/ ProcessOutput(k, sid)
                               \/ ProcessExit(k, sid)
                               \/ ProcessError(k, sid)
           \/ \E p \in pendingStops : p.sessionId = sid /\ StopReturn(p))
       => /\ {m.to : m \in sent'} = {w \in BoundTo(sid) : IsOpen(webSocketConnections, w)}
          /\ \A m \in sent' : m.sessionId = sid
          /\ webSocketConnections' = webSocketConnections]_vars

\* C22's case: an output message was just sent to an open connection of a
\* session while another connection bound to it, its transport closed, got none.
C22_Witness ==
  \E w, v \in DOMAIN webSocketConnections :
    /\ BoundSession(w) \in DOMAIN claudeSessions
    /\ BoundSession(v) = BoundSession(w)
    /\ IsOpen(webSocketConnections, w)
    /\ ~IsOpen(webSocketConnections, v)
    /\ \E m \in sent : m.type = "output" /\ m.to = w
    /\ \A m \in sent : m.to # v

C24_StartTimeSetOnce ==
  [][/\ \A p \in pendingStarts :
          (p.ok /\ p.sessionId \in DOMAIN claudeSessions /\ StartReturn(p))
          => LET before == claudeSessions[p.sessionId]
                 after == claudeSessions'[p.sessionId]
             IN /\ after.agent = p.agent
                /\ after.active
                /\ after.sessionStartTime # 0
                /\ before.sessionStartTime = 0 => after.sessionStartTime = Now
     /\ \A sid \in DOMAIN claudeSessions \cap DOMAIN claudeSessions' :
          claudeSessions[sid].sessionStartTime # 0
          => claudeSessions'[sid].sessionStartTime = claudeSessions[sid].sessionStartTime]_vars

\* C24's case: a session that was started, went idle and was started again at
\* a later time is active and still carries the time of its first start.
C24_Witness ==
  \E sid \in DOMAIN claudeSessions :
    /\ claudeSessions[sid].active
    /\ claudeSessions[sid].agent \in Kinds
    /\ claudeSessions[sid].sessionStartTime = 1
    /\ claudeSessions[sid].lastActivity = 2
    /\ starts = 2
    /\ pendingStarts = {}

\* C25: a stop request from a connection whose session is registered and idle
\* does nothing: no bridge stop is called or left pending, nothing is sent or
\* forwarded, and the registry, the connections and the processes are as
\* they were.
C25_StopOnIdleIsNoOp ==
  [][\A w \in ConnIds :
       (/\ w \in DOMAIN webSocketConnections
        /\ BoundSession(w) \in DOMAIN claudeSessions
        /\ ~claudeSessions[BoundSession(w)].active
        /\ StopRequest(w))
       => /\ sent' = {}
          /\ forwarded' = {}
          /\ bridge' = bridge
          /\ pendingStops' = pendingStops
          /\ claudeSessions' = claudeSessions
          /\ webSocketConnections' = webSocketConnections
          /\ inbox' = inbox]_vars

\* C25's case: a connection is bound to a session that was started and is idle
\* again while a process of it is still held by a bridge, which a stop call
\* would have ended; nothing is pending and the last handler sent nothing.
C25_Witness ==
  \E w \in DOMAIN webSocketConnections :
    /\ BoundSession(w) \in DOMAIN claudeSessions
    /\ ~claudeSessions[BoundSession(w)].active
    /\ claudeSessions[BoundSession(w)].sessionStartTime # 0
    /\ Processes(BoundSession(w)) # {}
    /\ pendingStops = {}
    /\ pendingStarts = {}
    /\ sent = {}
    /\ forwarded = {}

\* The registry is not empty although the snapshot is: a save has failed.
SaveHasFailed == DOMAIN claudeSessions # {} /\ sessionStore = <<>>

\* C26: a DELETE for an id that is not in the registry answers 404 and changes
\* nothing: the registry, the connections, the processes, the pending starts
\* and stops and the snapshot are as before (no save was made), and nothing
\* is sent.
C26_DeleteUnknownHasNoEffect ==
  [][\A sid \in SessionIds :
       (sid \notin DOMAIN claudeSessions /\ HttpDeleteSession(sid))
       => /\ HttpDeleteStatus(claudeSessions, sid) = 404
          /\ sent' = {}
          /\ claudeSessions' = claudeSessions
          /\ webSocketConnections' = webSocketConnections
          /\ bridge' = bridge
          /\ pendingStarts' = pendingStarts
          /\ pendingStops' = pendingStops
          /\ sessionStore' = sessionStore
          /\ phase' = phase]_vars

\* C26's case: one session is registered with an open connection bound to it
\* and a running process, the snapshot is behind the registry (a save would
\* show), an id is free for the unknown delete, and the last handler sent
\* nothing.
C26_Witness ==
  /\ phase = "up"
  /\ SaveHasFailed
  /\ \E sid \in DOMAIN claudeSessions :
       /\ Processes(sid) # {}
       /\ \E w \in BoundTo(sid) : IsOpen(webSocketConnections, w)
  /\ \E sid \in SessionIds : sid \notin DOMAIN claudeSessions
  /\ sent = {}
  /\ forwarded = {}

\* C27: a create_session message or a POST /api/sessions/create whose
\* workingDir lies outside the base folder creates nothing: the registry, the
\* connections and their bindings, the ids handed out and the snapshot are as
\* before (no save was made); the connection is sent the error and nothing
\* else, the HTTP request is answered 403.
C27_RejectedCreateCreatesNothing ==
  [][\A r \in limits.requests :
       r.workingDir = "outside"
       => /\ \A w \in DOMAIN webSocketConnections :
               CreateAndJoinSession(w, r.name, r.workingDir)
               => /\ sent' = SendToWebSocket(webSocketConnections,
                                             ErrorTo(w, BadWorkingDirMsg))
                  /\ claudeSessions' = claudeSessions
                  /\ webSocketConnections' = webSocketConnections
                  /\ nextSessionId' = nextSessionId
                  /\ sessionStore' = sessionStore
          /\ HttpCreateSession(r.name, r.workingDir)
               => /\ HttpCreateStatus(r.workingDir) = 403
                  /\ sent' = {}
                  /\ claudeSessions' = claudeSessions
                  /\ webSocketConnections' = webSocketConnections
                  /\ nextSessionId' = nextSessionId
                  /\ sessionStore' = sessionStore]_vars

\* C27's case: a connection bound to a registered session was just sent the
\* working-directory error; an id was free for a new session and the snapshot
\* is behind the registry (a save would show).
C27_Witness ==
  \E w \in DOMAIN webSocketConnections :
    /\ sent = {ErrorTo(w, BadWorkingDirMsg)}
    /\ BoundSession(w) \in DOMAIN claudeSessions
    /\ nextSessionId < limits.sessions
    /\ SaveHasFailed
    /\ phase = "up"

C29_SnapshotMirrorsRegistry ==
  [][AutoSave("ack") => sessionStore' = Durable(claudeSessions)]_vars

LateEvent(sid) ==
  \/ \E k \in Kinds : ProcessOutput(k, sid) \/ ProcessExit(k, sid) \/ ProcessError(k, sid)
  \/ \E p \in pendingStarts : p.sessionId = sid /\ StartReturn(p)
  \/ \E p \in pendingStops : p.sessionId = sid /\ StopReturn(p)

\* C31 (as claimed): once a session id is deleted no step puts it back in the
\* registry, and a late event of it changes no session, buffers nothing and
\* sends nothing to any connection.
C31_DeletedIsSilent ==
  [][\A sid \in SessionIds :
       Deleted(sid)
       => /\ sid \notin DOMAIN claudeSessions'
          /\ LateEvent(sid)
             => /\ sent' = {}
                /\ claudeSessions' = claudeSessions
                /\ emitted' = emitted]_vars

\* C31 (amended): as claimed, but for the failure of a start that was in
\* flight, which is still reported to the connection that asked for it; no
\* message of any step names the deleted session.
C31_DeletedIsTerminal ==
  [][\A sid \in SessionIds :
       Deleted(sid)
       => /\ sid \notin DOMAIN claudeSessions'
          /\ \A m \in sent' : m.sessionId # sid
          /\ LateEvent(sid)
             => /\ claudeSessions' = claudeSessions
                /\ emitted' = emitted
                /\ \/ sent' = {}
                   \/ \E p \in pendingStarts :
                        /\ p.sessionId = sid /\ ~p.ok /\ StartReturn(p)
                        /\ sent' = {ErrorTo(p.ws, FailedToStartMsg)}]_vars

\* C31's case: a session was deleted while a process of it lives on, so its
\* callbacks still fire; another session is registered with an open
\* connection bound to it, and the last handler sent nothing.
C31_Witness ==
  \E sid \in SessionIds :
    /\ Deleted(sid)
    /\ Processes(sid) # {}
    /\ \E other \in DOMAIN claudeSessions :
         \E w \in BoundTo(other) : IsOpen(webSocketConnections, w)
    /\ pendingStarts = {}
    /\ sent = {}

\* C32 (as claimed): in every reachable state a registered session that is
\* idle and has no start in flight has no running process in any bridge.
C32_IdleHasNoProcess ==
  \A sid \in DOMAIN claudeSessions :
    (/\ ~claudeSessions[sid].active
     /\ \A p \in pendingStarts : p.sessionId # sid)
    => Processes(sid) = {}

\* The types of the messages broadcastToSession carries.
BroadcastTypes ==
  {"output", "exit", "error"} \cup {k \o "_started" : k \in Kinds}
    \cup {k \o "_stopped" : k \in Kinds}

\* C33: every output, exit, error, started or stopped message broadcast for a
\* session goes to a connection that is bound to that session when it is sent.
C33_BroadcastOnlyToBound ==
  [][\A m \in sent' :
       (m.type \in BroadcastTypes /\ m.sessionId # NoSession)
       => /\ m.to \in DOMAIN webSocketConnections'
          /\ webSocketConnections'[m.to].claudeSessionId = m.sessionId]_vars

\* C33's case: a connection moved by create_session from a session, in whose
\* connection set it still is, to another; the first session's process has
\* emitted a chunk since, and the connection was sent none of it.
C33_Witness ==
  \E w \in DOMAIN webSocketConnections, sid \in DOMAIN claudeSessions :
    /\ IsOpen(webSocketConnections, w)
    /\ w \in claudeSessions[sid].connections
    /\ BoundSession(w) \in DOMAIN claudeSessions \ {sid}
    /\ claudeSessions[sid].outputBuffer = <<1>>
    /\ inbox[w] = EmptyInbox
    /\ Processes(sid) # {}
    /\ sent = {}

\* C34 (as claimed): the DELETE of a registered session sends session_deleted
\* to, and closes, no connection that is bound to another session or to none.
C34_DeleteSparesOthers ==
  [][\A sid \in SessionIds :
       (sid \in DOMAIN claudeSessions /\ HttpDeleteSession(sid))
       => \A w \in DOMAIN webSocketConnections :
            BoundSession(w) # sid
            => /\ \A m \in sent' : m.to # w
               /\ webSocketConnections'[w] = webSocketConnections[w]]_vars

\* C35 (as claimed): when a start completes whose session was deleted while
\* the start was in flight, no bridge is left with a running process for the
\* deleted id.
C35_NoOrphanAfterDelete ==
  [][\A p \in pendingStarts :
       (Deleted(p.sessionId) /\ StartReturn(p))
       => \A k \in Kinds : bridge'[k][p.sessionId] # "running"]_vars

\* C36 (as claimed): an input or resize that is forwarded while a process of
\* the session is running goes to a bridge variant that holds one; and when a
\* stop requested for an active session has completed, the process of the
\* variant it named is no longer running, the session is idle with no agent,
\* and every open connection bound to it was sent the stopped message of that
\* kind.
C36_ForwardAndStopReachOwner ==
  [][/\ \A w \in ConnIds, op \in InputOps :
          HandleInput(w, op)
          => \A f \in forwarded' :
               Processes(f.sessionId) # {}
               => BridgeHasProcess(bridge, f.agent, f.sessionId)
     /\ \A p \in pendingStops :
          (p.sessionId \in DOMAIN claudeSessions /\ StopReturn(p))
          => /\ bridge'[p.agent][p.sessionId] # "running"
             /\ ~claudeSessions'[p.sessionId].active
             /\ claudeSessions'[p.sessionId].agent = "null"
             /\ {m.to : m \in {n \in sent' : n.type = p.agent \o "_stopped"}}
                  = {w \in BoundTo(p.sessionId) : IsOpen(webSocketConnections, w)}]_vars

\* A sendInput or resize call that throws for connection w: the forward is
\* attempted and the chosen variant has no running process for the session.
ForwardThrows(w) ==
  /\ w \in DOMAIN webSocketConnections
  /\ BoundSession(w) \in DOMAIN claudeSessions
  /\ w \in claudeSessions[BoundSession(w)].connections
  /\ ForwardAllowed(claudeSessions[BoundSession(w)])
  /\ ~BridgeAccepts(bridge, InputVariant(claudeSessions[BoundSession(w)]), BoundSession(w))

\* A step in which the handling of a message of connection w fails: a frame
\* that cannot be parsed, a forward whose bridge call throws, or a start whose
\* bridge call throws.
FailsFor(w) ==
  \/ HandleMalformedMessage(w)
  \/ ForwardThrows(w) /\ \E op \in InputOps : HandleInput(w, op)
  \/ \E p \in pendingStarts : p.ws = w /\ ~p.ok /\ StartReturn(p)

\* C37: a step in which the handling of a message of a registered connection
\* fails leaves the broker in the same phase and every connection registered
\* with the binding and transport state it had, leaves every session registered
\* with the active flag and agent kind it had, and sends nothing but error
\* messages to the sender.
C37_FailureIsContained ==
  [][\A w \in DOMAIN webSocketConnections :
       FailsFor(w)
       => /\ phase' = phase
          /\ webSocketConnections' = webSocketConnections
          /\ DOMAIN claudeSessions' = DOMAIN claudeSessions
          /\ \A sid \in DOMAIN claudeSessions :
               /\ claudeSessions'[sid].active = claudeSessions[sid].active
               /\ claudeSessions'[sid].agent = claudeSessions[sid].agent
          /\ \A m \in sent' : m.to = w /\ m.type = "error"]_vars

\* C37 witness: a connection bound to an active session has just been answered
\* "Agent is not running" because the bridge call of its input threw.
C37_Witness ==
  \E w \in DOMAIN webSocketConnections :
    /\ ForwardThrows(w)
    /\ sent = {ErrorTo(w, AgentNotRunningMsg)}
    /\ forwarded = {[op |-> "input", agent |-> InputVariant(claudeSessions[BoundSession(w)]),
                     sessionId |-> BoundSession(w)]}

\* C38 (as claimed): when the startup load completes, every session that was
\* in the registry just before is still in it with the connections it had,
\* and every session of the snapshot is in it too.
C38_LoadKeepsRegistry ==
  [][LoadPersistedSessions
     => /\ \A sid \in DOMAIN claudeSessions :
             /\ sid \in DOMAIN claudeSessions'
             /\ claudeSessions'[sid].connections = claudeSessions[sid].connections
        /\ DOMAIN sessionStore \subseteq DOMAIN claudeSessions']_vars

JoinedAsClaimed(w, sid) ==
  LET joined == {m \in sent' : m.type = "session_joined"}
      buf == claudeSessions'[sid].outputBuffer
      k == IF Len(buf) < ReplayLimit THEN Len(buf) ELSE ReplayLimit
  IN /\ \A m \in joined :
          /\ m.to = w
          /\ m.sessionId = sid
          /\ m.active = claudeSessions'[sid].active
          /\ Len(m.outputBuffer) = k
          /\ \A i \in 1..k : m.outputBuffer[i] = buf[Len(buf) - k + i]
     /\ webSocketConnections'[w].readyState = "OPEN" => Cardinality(joined) = 1

\* C40: when a connection joins a registered session, by join_session or by
\* the session id of its URL, session_joined is sent to that connection only
\* and carries the session's active flag and the most recent min(ReplayLimit,
\* buffer length) chunks of its outputBuffer in buffer order.  (The conjuncts
\* before JoinClaudeSession and HandleWebSocketConnection repeat what these
\* imply.)
C40_JoinedOnlyToJoiner ==
  [][\A sid \in DOMAIN claudeSessions :
       /\ \A w \in DOMAIN webSocketConnections :
            (/\ UNCHANGED <<nextWsId, nextSessionId, bridge, pendingStarts, emitted>>
             /\ w \in DOMAIN webSocketConnections'
             /\ webSocketConnections'[w].claudeSessionId = sid
             /\ JoinClaudeSession(w, sid))
            => JoinedAsClaimed(w, sid)
       /\ (nextWsId' = nextWsId + 1 /\ HandleWebSocketConnection(sid))
          => JoinedAsClaimed(nextWsId + 1, sid)]_vars

\* C40 witness: a connection has just been sent session_joined with the active
\* flag set and a replay shorter than the buffer of the session, to which
\* another open connection is bound as well.
C40_Witness ==
  \E m \in sent :
    /\ m.type = "session_joined"
    /\ m.active
    /\ m.sessionId \in DOMAIN claudeSessions
    /\ Len(m.outputBuffer) = ReplayLimit
    /\ Len(claudeSessions[m.sessionId].outputBuffer) > ReplayLimit
    /\ \E x \in BoundTo(m.sessionId) \ {m.to} : IsOpen(webSocketConnections, x)

====
